---------------------------- MODULE Spec2Model ----------------------------
(***************************************************************************)
(* Model of radaren989/cs50-AI:                                            *)
(*   src/week1/minesweeper/minesweeper.py  (Minesweeper, Sentence,         *)
(*                                          MinesweeperAI)                 *)
(*   src/week0/tictactoe/tictactoe.py      (player, actions, result,       *)
(*                                          utility, terminal, minimax)    *)
(* The two programs are independent; each specification below runs one of  *)
(* them and leaves the variables of the other at their initial values.     *)
(***************************************************************************)
EXTENDS Integers, Sequences, FiniteSets, TLC

VARIABLES
    gameMines,    \* Minesweeper.mines: the true mine set of the board
    gameBoard,    \* Minesweeper.board: cell -> whether it holds a mine
    minesArg,     \* Minesweeper.__init__: the argument mines
    ret,          \* what the last query of the AI or of the board returned
    sentence,     \* a Sentence object on its own: [cells, count]
    marked,       \* the last mark_mine / mark_safe call on sentence
    moves_made,   \* MinesweeperAI.moves_made
    mines,        \* MinesweeperAI.mines
    safes,        \* MinesweeperAI.safes
    knowledge,    \* MinesweeperAI.knowledge: sequence of [cells, count]
    pc,           \* position inside add_knowledge, __init__ or the driver
    board,        \* tictactoe: the grid object the caller holds
    newBoard,     \* tictactoe: what the last result() call returned
    lastAction,   \* tictactoe: the action of the last result() call
    raised        \* tictactoe: the exception the last result() call raised,
                  \*            or "none"

vars == <<gameMines, gameBoard, minesArg, ret, sentence, marked, moves_made,
          mines, safes, knowledge, pc, board, newBoard, lastAction, raised>>

sentVars == <<sentence, marked>>

gameVars == <<gameMines, gameBoard, minesArg>>

aiVars  == <<moves_made, mines, safes, knowledge>>
tttVars == <<board, newBoard, lastAction>>

\* ---------------------------------------------------------------- bounds
Height   == 3     \* MinesweeperAI(height, width): rows of the modelled board
Width    == 3     \* columns of the modelled board
MaxMines == 2     \* at most this many true mines on the board
MaxCalls == 4     \* at most this many add_knowledge calls in a run
MaxCallsAny == 2  \* the same, when the counts or the cells are arbitrary
MaxSentence == 3  \* at most this many cells, and this count, in a Sentence built on its own

AllCells == (0 .. Height - 1) \X (0 .. Width - 1)

\* ------------------------------------------------- Minesweeper (the board)

\* Minesweeper.nearby_mines: cells with board[i][j] True within one row and
\* column of cell, the cell itself excluded, cells outside the board ignored.
nearby_mines(cell) ==
    Cardinality({ c \in (cell[1] - 1 .. cell[1] + 1) \X (cell[2] - 1 .. cell[2] + 1) :
                    /\ c # cell
                    /\ 0 <= c[1] /\ c[1] < Height /\ 0 <= c[2] /\ c[2] < Width
                    /\ gameBoard[c] })

\* Minesweeper.is_mine
is_mine(cell) == gameBoard[cell]

\* Minesweeper.mines_found: set on line 34, and assigned nowhere else.
mines_found == {}

\* Minesweeper.won
won == mines_found = gameMines

add_mine_noBoard(game, i, j) ==
    IF ~game.board[<<i, j>>]
      THEN [mines |-> game.mines \cup {<<i, j>>}, board |-> game.board]
      ELSE game

\* Minesweeper.__init__, lines 29-31, for the Minesweeper game = [mines, board]
\* and the cell (i, j) drawn on lines 27-28.
add_mine(game, i, j) ==
    IF ~game.board[<<i, j>>]
      THEN [mines |-> game.mines \cup {<<i, j>>},
            board |-> [game.board EXCEPT ![<<i, j>>] = TRUE]]
      ELSE game

\* ----------------------------------------------------------------- Sentence

Sentence(cells, count) == [cells |-> cells, count |-> count]

known_mines(s) == IF Cardinality(s.cells) # s.count THEN {} ELSE s.cells

known_safes(s) == IF s.count # 0 THEN {} ELSE s.cells

Sentence_mark_mine_keepCount(s, cell) ==
    IF cell \in s.cells
      THEN [cells |-> s.cells \ {cell}, count |-> s.count]
      ELSE s

Sentence_mark_mine_always(s, cell) ==
    [cells |-> s.cells \ {cell}, count |-> s.count - 1]


\* Sentence.mark_mine
Sentence_mark_mine(s, cell) ==
    IF cell \in s.cells
      THEN [cells |-> s.cells \ {cell}, count |-> s.count - 1]
      ELSE s

Sentence_mark_safe(s, cell) ==
    IF cell \in s.cells
      THEN [cells |-> s.cells \ {cell}, count |-> s.count]
      ELSE s

\* ------------------------------------------------------------ MinesweeperAI
\* An AI object is the record [moves_made, mines, safes, knowledge].

Self == [moves_made |-> moves_made, mines |-> mines, safes |-> safes,
         knowledge |-> knowledge]

mark_mine_noSentences(self, cell) ==
    [self EXCEPT !.mines = @ \cup {cell}]


mark_mine(self, cell) ==
    [self EXCEPT !.mines = @ \cup {cell},
                 !.knowledge = [k \in DOMAIN @ |-> Sentence_mark_mine(@[k], cell)]]

mark_safe(self, cell) ==
    [self EXCEPT !.safes = @ \cup {cell},
                 !.knowledge = [k \in DOMAIN @ |-> Sentence_mark_safe(@[k], cell)]]

\* "for cell in copy_cells: self.mark_mine(cell)".  copy_cells is a copy taken
\* before the loop; the marks of distinct cells commute, so the iteration order
\* of the Python set does not show in the result.  next is the AI after the
\* mark of one cell, rest the cells still to mark.
RECURSIVE mark_mines(_, _)
mark_mines(self, copy_cells) ==
    IF copy_cells = {} THEN self
    ELSE CHOOSE done \in
             { mark_mines(next, rest) :
                 next \in { mark_mine(self, CHOOSE c \in copy_cells : TRUE) },
                 rest \in { copy_cells \ {CHOOSE c \in copy_cells : TRUE} } } : TRUE

RECURSIVE mark_safes(_, _)
mark_safes(self, copy_cells) ==
    IF copy_cells = {} THEN self
    ELSE CHOOSE done \in
             { mark_safes(next, rest) :
                 next \in { mark_safe(self, CHOOSE c \in copy_cells : TRUE) },
                 rest \in { copy_cells \ {CHOOSE c \in copy_cells : TRUE} } } : TRUE

\* add_knowledge, lines 201-211: the neighbours of cell inside the board.
cellSet(cell) ==
    { c \in (cell[1] - 1 .. cell[1] + 1) \X (cell[2] - 1 .. cell[2] + 1) :
        /\ ~(c[1] < 0 \/ c[1] >= Height)
        /\ ~(c[2] < 0 \/ c[2] >= Width \/ (cell[1] = c[1] /\ cell[2] = c[2])) }

final_set_keepSafes(self, cell) ==
    { c \in cellSet(cell) : c \notin self.mines }

\* add_knowledge, lines 214-220.
final_set(self, cell) ==
    { c \in cellSet(cell) : c \notin self.mines /\ c \notin (self.safes \cup self.mines) }

count_copy(self, cell, count) ==
    count - Cardinality({ c \in cellSet(cell) : c \in self.mines })

\* add_knowledge, line 224: the sentence built for cell and count by an AI
\* that has already marked cell safe.
new_sentence(self, cell, count) ==
    Sentence(final_set(self, cell), count_copy(self, cell, count))

\* add_knowledge, lines 195-240: record the move, mark the cell safe, build the
\* new sentence, append it when it has cells, and apply what it determines.
\* new_sentence is the last element of knowledge when it was appended, and an
\* object outside the knowledge base (never changed by the marks) otherwise.
add_knowledge_new(self, cell, count) ==
    LET s1   == mark_safe([self EXCEPT !.moves_made = @ \cup {cell}], cell)
        new  == new_sentence(s1, cell, count)
        app  == Cardinality(new.cells) > 0
        s2   == IF app THEN [s1 EXCEPT !.knowledge = Append(@, new)] ELSE s1
        s3   == mark_mines(s2, known_mines(new))
        new3 == IF app THEN s3.knowledge[Len(s3.knowledge)] ELSE new
    IN  mark_safes(s3, known_safes(new3))

reduce_pair_swapped(self, i, j) ==
    LET sentence1 == self.knowledge[i]
        sentence2 == self.knowledge[j]
    IN  IF sentence1.cells \subseteq sentence2.cells /\ sentence1.cells # sentence2.cells
          THEN [self EXCEPT !.knowledge[i] =
                  Sentence(sentence2.cells \ sentence1.cells,
                           sentence2.count - sentence1.count)]
        ELSE IF sentence2.cells \subseteq sentence1.cells /\ sentence1.cells # sentence2.cells
          THEN [self EXCEPT !.knowledge[j] =
                  Sentence(sentence1.cells \ sentence2.cells,
                           sentence1.count - sentence2.count)]
        ELSE self


reduce_pair_keepCount(self, i, j) ==
    LET sentence1 == self.knowledge[i]
        sentence2 == self.knowledge[j]
    IN  IF sentence1.cells \subseteq sentence2.cells /\ sentence1.cells # sentence2.cells
          THEN [self EXCEPT !.knowledge[j].cells = sentence2.cells \ sentence1.cells]
        ELSE IF sentence2.cells \subseteq sentence1.cells /\ sentence1.cells # sentence2.cells
          THEN [self EXCEPT !.knowledge[i].cells = sentence1.cells \ sentence2.cells]
        ELSE self

\* add_knowledge, lines 246-252 for the pair (sentence1, sentence2) =
\* (knowledge[i], knowledge[j]): the strict superset loses the cells and the
\* count of the other.
reduce_pair(self, i, j) ==
    LET sentence1 == self.knowledge[i]
        sentence2 == self.knowledge[j]
    IN  IF sentence1.cells \subseteq sentence2.cells /\ sentence1.cells # sentence2.cells
          THEN [self EXCEPT !.knowledge[j] =
                    Sentence(sentence2.cells \ sentence1.cells,
                             sentence2.count - sentence1.count)]
        ELSE IF sentence2.cells \subseteq sentence1.cells /\ sentence1.cells # sentence2.cells
          THEN [self EXCEPT !.knowledge[i] =
                    Sentence(sentence1.cells \ sentence2.cells,
                             sentence1.count - sentence2.count)]
        ELSE self

\* add_knowledge, lines 254-268: each known_mines()/known_safes() is read from
\* the sentence as the marks before it left it.
apply_pair(self, i, j) ==
    CHOOSE a4 \in
      { mark_safes(a3, known_safes(a3.knowledge[j])) :
          a3 \in { mark_safes(a2, known_safes(a2.knowledge[i])) :
          a2 \in { mark_mines(a1, known_mines(a1.knowledge[j])) :
          a1 \in { mark_mines(a0, known_mines(a0.knowledge[i])) :
          a0 \in {self} } } } } : TRUE

\* One iteration of the inner loop, lines 246-268.
pair_visit(self, i, j) == apply_pair(reduce_pair(self, i, j), i, j)

\* The n-th pair (0-based) of "for sentence1 ... for sentence2 ...".
PairI(self, n) == (n \div Len(self.knowledge)) + 1
PairJ(self, n) == (n % Len(self.knowledge)) + 1
NPairs(self)   == Len(self.knowledge) * Len(self.knowledge)

\* add_knowledge, lines 244-268, from the n-th pair on: next is the state the
\* n-th visit leaves, from which the later visits go on.  The loops append
\* nothing, so the length of knowledge stays what it is in self.
RECURSIVE pairwise_run(_, _)
pairwise_run(self, n) ==
    IF n >= NPairs(self) THEN self
    ELSE CHOOSE last \in { pairwise_run(next, n + 1) :
                              next \in {pair_visit(self, PairI(self, n), PairJ(self, n))} } :
             TRUE

\* add_knowledge, lines 244-268: the whole pass.
add_knowledge_pairwise(self) == pairwise_run(self, 0)


\* ---------------------------------------------------------------- tictactoe
X     == "X"
O     == "O"
EMPTY == "None"
None  == "None"

initial_state ==
    << <<EMPTY, EMPTY, EMPTY>>,
       <<EMPTY, EMPTY, EMPTY>>,
       <<EMPTY, EMPTY, EMPTY>> >>

\* row.count(EMPTY) for one row.
RowEmpty(row) ==
    (IF row[1] = EMPTY THEN 1 ELSE 0) + (IF row[2] = EMPTY THEN 1 ELSE 0)
      + (IF row[3] = EMPTY THEN 1 ELSE 0)

\* sum(row.count(EMPTY) for row in board)
iEmptyFields(b) == RowEmpty(b[1]) + RowEmpty(b[2]) + RowEmpty(b[3])

player_oddIsX(b) == IF (9 - iEmptyFields(b)) % 2 = 0 THEN O ELSE X

player(b) == IF (9 - iEmptyFields(b)) % 2 = 0 THEN X ELSE O

\* The cells (i, j), 0-based, in the order of the two enumerate() loops.
RowMajor == [n \in 1 .. 9 |-> <<(n - 1) \div 3, (n - 1) % 3>>]

\* board[i][j] for 0-based in-range i, j.
At(b, i, j) == b[i + 1][j + 1]

actions(b) == SelectSeq(RowMajor, LAMBDA a : At(b, a[1], a[2]) = EMPTY)

\* Python list indexing: an index k of a list of length 3 is valid iff
\* -3 <= k < 3, and a negative k counts from the end.
IndexOK(k) == -3 <= k /\ k < 3
PyIndex(k) == IF k < 0 THEN k + 3 ELSE k

result_inPlace(b, action) ==
    LET turn == player(b)
        i    == action[1]
        j    == action[2]
        new  == [b EXCEPT ![PyIndex(i) + 1][PyIndex(j) + 1] = turn]
    IN  IF ~(IndexOK(i) /\ IndexOK(j))
          THEN [ret |-> None, arg |-> b, raised |-> "IndexError"]
        ELSE IF At(b, PyIndex(i), PyIndex(j)) # EMPTY
          THEN [ret |-> None, arg |-> b, raised |-> "IllegalMoveError"]
        ELSE [ret |-> new, arg |-> new, raised |-> "none"]

\* result(board, action).  ret: the value returned (None when it raised);
\* arg: the argument object as the call leaves it; raised: the exception.
\* newBoard is a deep copy, so the assignment of line 53 writes no row of the
\* argument.
result(b, action) ==
    LET turn == player(b)
        i    == action[1]
        j    == action[2]
    IN  IF ~(IndexOK(i) /\ IndexOK(j))
          THEN [ret |-> None, arg |-> b, raised |-> "IndexError"]
        ELSE IF At(b, PyIndex(i), PyIndex(j)) # EMPTY
          THEN [ret |-> None, arg |-> b, raised |-> "IllegalMoveError"]
        ELSE [ret |-> [b EXCEPT ![PyIndex(i) + 1][PyIndex(j) + 1] = turn],
              arg |-> b, raised |-> "none"]

\* "a == b == c == player" for three cells: all three hold player.
Three(a, b, c, p) == <<a, b, c>> = <<p, p, p>>

HasLine_noAntiDiagonal(b, p) ==
    \/ b[1] = <<p, p, p>> \/ Three(b[1][1], b[2][1], b[3][1], p)
    \/ b[2] = <<p, p, p>> \/ Three(b[1][2], b[2][2], b[3][2], p)
    \/ b[3] = <<p, p, p>> \/ Three(b[1][3], b[2][3], b[3][3], p)
    \/ Three(b[1][1], b[2][2], b[3][3], p)


\* utility, lines 96-104 for one player: for i in range(3) the row i or the
\* column i, then the two diagonals.
HasLine(b, p) ==
    \/ b[1] = <<p, p, p>> \/ Three(b[1][1], b[2][1], b[3][1], p)
    \/ b[2] = <<p, p, p>> \/ Three(b[1][2], b[2][2], b[3][2], p)
    \/ b[3] = <<p, p, p>> \/ Three(b[1][3], b[2][3], b[3][3], p)
    \/ Three(b[1][1], b[2][2], b[3][3], p)
    \/ Three(b[1][3], b[2][2], b[3][1], p)

\* "for player in [X, O]": X is tried first.
utility(b) ==
    IF HasLine(b, X) THEN 1
    ELSE IF HasLine(b, O) THEN -1
    ELSE 0

winner(b) ==
    LET win == utility(b)
    IN  IF win = 1 THEN X ELSE IF win = -1 THEN O ELSE None

terminal(b) ==
    IF utility(b) # 0 THEN TRUE
    ELSE IF iEmptyFields(b) = 0 THEN TRUE
    ELSE FALSE

\* min() and max() of a non-empty set of integers.
Least(S)    == CHOOSE v \in S : \A w \in S : v <= w
Greatest(S) == CHOOSE v \in S : \A w \in S : v >= w

RECURSIVE minValue(_), maxValue(_)

minValue_cooperative(b) == maxValue(b)

\* minValue: val starts at 5 and each action of actions(board) replaces it by
\* min(val, maxValue(result(board, action))); what the loop leaves in val is
\* the least of 5 and the maxValue of the successors.
minValue(b) ==
    IF terminal(b) THEN utility(b)
    ELSE LET acts == actions(b)
         IN  Least({5} \cup { maxValue(result(b, acts[k]).ret) : k \in DOMAIN acts })

\* maxValue: the same with -5, max and minValue.
maxValue(b) ==
    IF terminal(b) THEN utility(b)
    ELSE LET acts == actions(b)
         IN  Greatest({-5} \cup { minValue(result(b, acts[k]).ret) : k \in DOMAIN acts })

RECURSIVE minimaxLoopX_reversed(_, _, _, _, _)
minimaxLoopX_reversed(b, acts, k, max, move) ==
    IF k > Len(acts) THEN move
    ELSE LET val == minValue(result(b, acts[k]).ret)
         IN  IF max > val
               THEN minimaxLoopX_reversed(b, acts, k + 1, val, acts[k])
               ELSE minimaxLoopX_reversed(b, acts, k + 1, max, move)

\* The loop of minimax for X (lines 120-129) from the k-th action on.
RECURSIVE minimaxLoopX(_, _, _, _, _)
minimaxLoopX(b, acts, k, max, move) ==
    IF k > Len(acts) THEN move
    ELSE LET val == minValue(result(b, acts[k]).ret)
         IN  IF max < val
               THEN minimaxLoopX(b, acts, k + 1, val, acts[k])
               ELSE minimaxLoopX(b, acts, k + 1, max, move)

RECURSIVE minimaxLoopO_lastFound(_, _, _, _, _)
minimaxLoopO_lastFound(b, acts, k, min, move) ==
    IF k > Len(acts) THEN move
    ELSE LET val == maxValue(result(b, acts[k]).ret)
         IN  IF min >= val
               THEN minimaxLoopO_lastFound(b, acts, k + 1, val, acts[k])
               ELSE minimaxLoopO_lastFound(b, acts, k + 1, min, move)


\* The loop of minimax for O (lines 132-141).
RECURSIVE minimaxLoopO(_, _, _, _, _)
minimaxLoopO(b, acts, k, min, move) ==
    IF k > Len(acts) THEN move
    ELSE LET val == maxValue(result(b, acts[k]).ret)
         IN  IF min > val
               THEN minimaxLoopO(b, acts, k + 1, val, acts[k])
               ELSE minimaxLoopO(b, acts, k + 1, min, move)

minimax(b) ==
    IF terminal(b) THEN None
    ELSE IF player(b) = X
      THEN minimaxLoopX(b, actions(b), 1, -5, <<>>)
      ELSE minimaxLoopO(b, actions(b), 1, 5, <<>>)

\* ------------------------------------------------------------------ actions

SetAI(self) ==
    \E ai \in {self} :
        /\ moves_made' = ai.moves_made
        /\ mines' = ai.mines
        /\ safes' = ai.safes
        /\ knowledge' = ai.knowledge

\* The board as Minesweeper.__init__ leaves it: board[i][j] is True on the
\* cells of mines, and len(mines) is the argument.
GameBuilt ==
    /\ gameBoard = [c \in AllCells |-> c \in gameMines]
    /\ minesArg = Cardinality(gameMines)

\* None where a cell (i, j) is expected: the empty tuple, which TLC compares
\* with cells.
NoCell == <<>>

\* No move was asked of the AI yet.
NoRet == [op |-> "none", val |-> NoCell]

\* No mark_mine / mark_safe call was made on a Sentence of its own.
NoMark == [op |-> "none", cell |-> NoCell]

\* No Sentence was built on its own.
NoSentence ==
    /\ sentence = Sentence({}, 0)
    /\ marked = NoMark

InitAI ==
    /\ moves_made = {} /\ mines = {} /\ safes = {} /\ knowledge = <<>>

\* No result() call was made yet.
InitCalls ==
    /\ newBoard = None /\ lastAction = <<>> /\ raised = "none"
    /\ ret = NoRet

\* ---- minesweeper: the AI fed by the board (Minesweeper) it plays on

\* add_knowledge(cell, nearby_mines(cell)) for a cell that is no mine and was
\* not passed before: lines 195-240, up to the pairwise pass.
AddKnowledge(cell) ==
    /\ pc = "idle"
    /\ Cardinality(moves_made) < MaxCalls
    /\ cell \notin gameMines
    /\ cell \notin moves_made
    /\ SetAI(add_knowledge_new(Self, cell, nearby_mines(cell)))
    /\ pc' = "pairwise"
    /\ UNCHANGED <<gameVars, sentVars, ret, tttVars, raised>>

\* The pairwise pass of the same call, lines 244-268; the call returns.
Pairwise ==
    /\ pc = "pairwise"
    /\ SetAI(add_knowledge_pairwise(Self))
    /\ pc' = "idle"
    /\ UNCHANGED <<gameVars, sentVars, ret, tttVars, raised>>

Init ==
    /\ gameMines \in { M \in SUBSET AllCells : Cardinality(M) <= MaxMines }
    /\ GameBuilt
    /\ InitAI
    /\ board = initial_state
    /\ InitCalls
    /\ NoSentence
    /\ pc = "idle"

Next ==
    \/ \E cell \in AllCells : AddKnowledge(cell)
    \/ Pairwise

Spec == Init /\ [][Next]_vars

\* add_knowledge has returned (or was never called).
Returned == pc = "idle"

\* ---- minesweeper: add_knowledge called with any count

\* add_knowledge(cell, count) for any cell of the board not passed before and
\* any count 0..8, whatever the board holds.
AddKnowledgeAny(cell, count) ==
    /\ pc = "idle"
    /\ Cardinality(moves_made) < MaxCallsAny
    /\ cell \notin moves_made
    /\ SetAI(add_knowledge_new(Self, cell, count))
    /\ pc' = "pairwise"
    /\ UNCHANGED <<gameVars, sentVars, ret, tttVars, raised>>

InitAny ==
    /\ gameMines = {}
    /\ GameBuilt
    /\ InitAI
    /\ board = initial_state
    /\ InitCalls
    /\ NoSentence
    /\ pc = "idle"

NextAny ==
    \/ \E cell \in AllCells : \E count \in 0 .. 8 : AddKnowledgeAny(cell, count)
    \/ Pairwise

SpecAny == InitAny /\ [][NextAny]_vars

\* ---- minesweeper: the driver on a board without mines

make_safe_move_anySafe(self) == self.safes

\* MinesweeperAI.make_safe_move: the cells it may return (it returns None when
\* there is none); not_moved_safes is a new set, so pop() changes no field.
make_safe_move(self) == self.safes \ self.moves_made

\* The first move: any cell; the board reports 0.
DriverFirst(cell) ==
    /\ pc = "start"
    /\ SetAI(add_knowledge_new(Self, cell, nearby_mines(cell)))
    /\ pc' = "pairwise"
    /\ UNCHANGED <<gameVars, sentVars, ret, tttVars, raised>>

\* m = make_safe_move(); add_knowledge(m, nearby_mines(m)) while m is not None.
DriverSafeMove(m) ==
    /\ pc = "idle"
    /\ m \in make_safe_move(Self)
    /\ SetAI(add_knowledge_new(Self, m, nearby_mines(m)))
    /\ pc' = "pairwise"
    /\ UNCHANGED <<gameVars, sentVars, ret, tttVars, raised>>

\* make_safe_move() returned None: the driver stops.
DriverStop ==
    /\ pc = "idle"
    /\ make_safe_move(Self) = {}
    /\ pc' = "done"
    /\ UNCHANGED <<gameVars, sentVars, ret, aiVars, tttVars, raised>>

InitZero ==
    /\ gameMines = {}
    /\ GameBuilt
    /\ InitAI
    /\ board = initial_state
    /\ InitCalls
    /\ NoSentence
    /\ pc = "start"

NextZero ==
    \/ \E cell \in AllCells : DriverFirst(cell)
    \/ Pairwise
    \/ \E m \in AllCells : DriverSafeMove(m)
    \/ DriverStop

\* The driver is a sequential program: it takes its next step whenever it has
\* one.
SpecZero == InitZero /\ [][NextZero]_vars /\ WF_vars(NextZero)

\* ---- minesweeper: the AI asked for moves between add_knowledge calls

make_safe_move_self_popSafes(self, m) ==
    IF m = NoCell THEN self ELSE [self EXCEPT !.safes = @ \ {m}]

\* The AI after make_safe_move() returned m: line 277 builds not_moved_safes
\* with the operator -, a new set, and pop() on line 283 takes m from that
\* set; no attribute of self is assigned.
make_safe_move_self(self, m) == self

\* What make_safe_move() may return: any element of not_moved_safes (set.pop),
\* None when it is empty.
make_safe_move_ret(self) ==
    IF make_safe_move(self) = {} THEN {NoCell} ELSE make_safe_move(self)

\* MinesweeperAI.make_random_move: not_moved after lines 291-293, every cell of
\* the board less moves_made less mines.
make_random_move(self) == (AllCells \ self.moves_made) \ self.mines

\* The AI after make_random_move(): not_moved is a local set, the two -= act
\* on it, and no attribute of self is assigned.
make_random_move_self(self, m) == self

\* What make_random_move() may return: random.choice of the list of not_moved,
\* None (the function falls off its end) when the list is empty.
make_random_move_ret(self) ==
    IF make_random_move(self) = {} THEN {NoCell} ELSE make_random_move(self)

MakeSafeMove ==
    /\ pc = "idle"
    /\ \E m \in make_safe_move_ret(Self) :
          /\ ret' = [op |-> "make_safe_move", val |-> m]
          /\ SetAI(make_safe_move_self(Self, m))
    /\ UNCHANGED <<gameVars, sentVars, pc, tttVars, raised>>

MakeRandomMove ==
    /\ pc = "idle"
    /\ \E m \in make_random_move_ret(Self) :
          /\ ret' = [op |-> "make_random_move", val |-> m]
          /\ SetAI(make_random_move_self(Self, m))
    /\ UNCHANGED <<gameVars, sentVars, pc, tttVars, raised>>

NextQuery ==
    \/ \E cell \in AllCells : AddKnowledge(cell)
    \/ Pairwise
    \/ MakeSafeMove
    \/ MakeRandomMove

SpecQuery == Init /\ [][NextQuery]_vars


\* ---- minesweeper: a Sentence and the marks made on it

\* sentence.mark_mine(cell)
MarkMine(cell) ==
    /\ pc = "sentence"
    /\ sentence' = Sentence_mark_mine(sentence, cell)
    /\ marked' = [op |-> "mark_mine", cell |-> cell]
    /\ UNCHANGED <<gameVars, ret, aiVars, pc, tttVars, raised>>

\* sentence.mark_safe(cell)
MarkSafe(cell) ==
    /\ pc = "sentence"
    /\ sentence' = Sentence_mark_safe(sentence, cell)
    /\ marked' = [op |-> "mark_safe", cell |-> cell]
    /\ UNCHANGED <<gameVars, ret, aiVars, pc, tttVars, raised>>

\* sentence = Sentence(cells, count) for any cells of the board and any count.
InitMarks ==
    /\ gameMines = {}
    /\ GameBuilt
    /\ InitAI
    /\ board = initial_state
    /\ InitCalls
    /\ sentence \in { Sentence(cells, count) :
                        cells \in { S \in SUBSET AllCells : Cardinality(S) <= MaxSentence },
                        count \in 0 .. MaxSentence }
    /\ marked = NoMark
    /\ pc = "sentence"

NextMarks ==
    \/ \E cell \in AllCells : MarkMine(cell)
    \/ \E cell \in AllCells : MarkSafe(cell)

SpecMarks == InitMarks /\ [][NextMarks]_vars


\* ---- minesweeper: the construction of the board, and the board asked

\* One turn of "while len(self.mines) != mines" (lines 26-31): i and j are
\* what random.randrange returned.  A cell that already holds a mine leaves
\* the state as it is.
PlaceMine(i, j) ==
    /\ pc = "init"
    /\ Cardinality(gameMines) # minesArg
    /\ \E game \in {add_mine([mines |-> gameMines, board |-> gameBoard], i, j)} :
          /\ gameMines' = game.mines
          /\ gameBoard' = game.board
    /\ UNCHANGED <<minesArg, ret, sentVars, aiVars, pc, tttVars, raised>>

\* The loop ends (line 26), mines_found is set, __init__ returns.
Constructed ==
    /\ pc = "init"
    /\ Cardinality(gameMines) = minesArg
    /\ pc' = "built"
    /\ UNCHANGED <<gameVars, ret, sentVars, aiVars, tttVars, raised>>

IsMine(cell) ==
    /\ pc = "built"
    /\ ret' = [op |-> "is_mine", flag |-> is_mine(cell)]
    /\ UNCHANGED <<gameVars, sentVars, aiVars, pc, tttVars, raised>>

NearbyMines(cell) ==
    /\ pc = "built"
    /\ ret' = [op |-> "nearby_mines", count |-> nearby_mines(cell)]
    /\ UNCHANGED <<gameVars, sentVars, aiVars, pc, tttVars, raised>>

Won ==
    /\ pc = "built"
    /\ ret' = [op |-> "won", flag |-> won]
    /\ UNCHANGED <<gameVars, sentVars, aiVars, pc, tttVars, raised>>

\* Minesweeper(Height, Width, mines) before the loop: no mine, every
\* board[i][j] False, and any argument mines from 0 to the number of cells.
InitBoard ==
    /\ gameMines = {}
    /\ gameBoard = [c \in AllCells |-> FALSE]
    /\ minesArg \in 0 .. Height * Width
    /\ InitAI
    /\ board = initial_state
    /\ InitCalls
    /\ NoSentence
    /\ pc = "init"

NextBoard ==
    \/ \E i \in 0 .. Height - 1 : \E j \in 0 .. Width - 1 : PlaceMine(i, j)
    \/ Constructed
    \/ \E cell \in AllCells : IsMine(cell)
    \/ \E cell \in AllCells : NearbyMines(cell)
    \/ Won

\* random.randrange draws every cell with the same positive probability, so a
\* cell without a mine is drawn in the end as long as there is one: the loop
\* does not draw cells that hold a mine for ever.
SpecBoard == InitBoard /\ [][NextBoard]_vars /\ WF_vars(NextBoard)


\* ---- tictactoe: play from the empty grid

\* board = result(board, action) for an action of actions(board).
Move(action) ==
    /\ pc = "ttt"
    /\ \E k \in DOMAIN actions(board) : actions(board)[k] = action
    /\ board' = result(board, action).ret
    /\ UNCHANGED <<gameVars, sentVars, ret, aiVars, pc, newBoard, lastAction, raised>>

InitT ==
    /\ gameMines = {}
    /\ GameBuilt
    /\ InitAI
    /\ board = initial_state
    /\ InitCalls
    /\ NoSentence
    /\ pc = "ttt"

NextT == \E action \in (0 .. 2) \X (0 .. 2) : Move(action)

SpecT == InitT /\ [][NextT]_vars

\* ---- tictactoe: play that stops at terminal grids

\* One turn of a game: the caller asks terminal(board) first and moves only
\* when the game is not over (minValue and maxValue do the same before they
\* try a move).
Play(action) ==
    /\ ~terminal(board)
    /\ Move(action)

NextPlay == \E action \in (0 .. 2) \X (0 .. 2) : Play(action)

SpecPlay == InitT /\ [][NextPlay]_vars


\* ---- tictactoe: result() called once, with any grid and any action

Grids == [1 .. 3 -> [1 .. 3 -> {X, O, EMPTY}]]

\* The indices a caller may pass: one below and one above the grid included.
ExtIndex == -1 .. 3

\* One call result(board, action) on the grid the caller holds: board is the
\* argument object as the call leaves it, newBoard what the call returned.
ResultCall(action) ==
    /\ pc = "call"
    /\ LET r == result(board, action)
       IN  /\ board' = r.arg
           /\ newBoard' = r.ret
           /\ raised' = r.raised
    /\ lastAction' = action
    /\ pc' = "called"
    /\ UNCHANGED <<gameVars, sentVars, ret, aiVars>>

InitResult ==
    /\ gameMines = {}
    /\ GameBuilt
    /\ InitAI
    /\ board \in Grids
    /\ InitCalls
    /\ NoSentence
    /\ pc = "call"

NextResult == \E action \in ExtIndex \X ExtIndex : ResultCall(action)

SpecResult == InitResult /\ [][NextResult]_vars

\* ---- either program, called with cells that may lie outside the grid

ExtCells == (-1 .. Height) \X (-1 .. Width)

\* add_knowledge(cell, nearby_mines(cell)) for any cell a caller may pass.
AddKnowledgeAt(cell) ==
    /\ pc = "idle"
    /\ Cardinality(moves_made) < MaxCallsAny
    /\ cell \notin gameMines
    /\ cell \notin moves_made
    /\ SetAI(add_knowledge_new(Self, cell, nearby_mines(cell)))
    /\ pc' = "pairwise"
    /\ UNCHANGED <<gameVars, sentVars, ret, tttVars, raised>>

InitCallers == Init \/ InitResult

NextCallers ==
    \/ \E cell \in ExtCells : AddKnowledgeAt(cell)
    \/ Pairwise
    \/ \E action \in ExtIndex \X ExtIndex : ResultCall(action)

SpecCallers == InitCallers /\ [][NextCallers]_vars

\* ================================================================== claims

\* ---- C1
\* C1 as stated: whenever add_knowledge has returned, after any calls with
\* cells of the board passed at most once and any counts 0..8, no cell is both
\* in safes and in mines.
C1_SafesMinesDisjoint == Returned => safes \cap mines = {}

\* C1 amended: whenever add_knowledge has returned, a cell that is both in
\* safes and in mines is a cell that was passed to add_knowledge; so safes and
\* mines are disjoint as long as no passed cell is in mines.
C1_OverlapOnlyOnMoves ==
    Returned => /\ (safes \cap mines) \subseteq moves_made
                /\ (moves_made \cap mines = {} => safes \cap mines = {})

\* Two calls were made, the AI concluded mines and safe cells from them, and
\* none of the passed cells is in mines.
C1_Witness ==
    /\ Returned
    /\ Cardinality(moves_made) = MaxCallsAny
    /\ mines # {}
    /\ safes \ moves_made # {}
    /\ moves_made \cap mines = {}

\* ---- C2
\* C2: whenever add_knowledge has returned, after calls on distinct non-mine
\* cells with the board's own counts, every cell of mines is a mine of the
\* board, no cell of safes is one, and so no cell make_safe_move may return is
\* a mine.
C2_Sound ==
    Returned => /\ mines \subseteq gameMines
                /\ safes \cap gameMines = {}
                /\ make_safe_move(Self) \cap gameMines = {}

\* The AI has found a mine of the board and has a safe move left to offer.
C2_Witness ==
    /\ Returned
    /\ mines # {}
    /\ mines \subseteq gameMines
    /\ make_safe_move(Self) # {}

\* ---- C3
\* C3: whenever add_knowledge has returned (distinct non-mine cells, the
\* board's counts), every sentence of the knowledge base has
\* 0 <= count <= |cells|; a sentence without cells has count 0.
C3_CountInRange ==
    Returned => \A k \in DOMAIN knowledge :
                    /\ 0 <= knowledge[k].count
                    /\ knowledge[k].count <= Cardinality(knowledge[k].cells)

\* The knowledge base holds a sentence that shrank to no cells, and a sentence
\* that still has more cells than its positive count.
C3_Witness ==
    /\ Returned
    /\ \E k \in DOMAIN knowledge : knowledge[k].cells = {}
    /\ \E k \in DOMAIN knowledge : /\ 0 < knowledge[k].count
                                   /\ knowledge[k].count < Cardinality(knowledge[k].cells)

\* ---- C4
StrictSubset(A, B) == A \subseteq B /\ A # B

\* The sentence the subset law derives from a (the subset) and b.
Derived(a, b) == Sentence(b.cells \ a.cells, b.count - a.count)

\* The sentences the subset law derives when the pass, having reached s,
\* visits the pair (knowledge[i], knowledge[j]): one if one of the two is a
\* strict subset of the other, none otherwise.
DerivedAt(s, i, j) ==
    LET s1 == s.knowledge[i]
        s2 == s.knowledge[j]
    IN  IF StrictSubset(s1.cells, s2.cells) THEN {Derived(s1, s2)}
        ELSE IF StrictSubset(s2.cells, s1.cells) THEN {Derived(s2, s1)}
        ELSE {}

\* What the sentences derived at that visit determine.
DueMinesAt(s, i, j) == UNION { known_mines(d) : d \in DerivedAt(s, i, j) }
DueSafesAt(s, i, j) == UNION { known_safes(d) : d \in DerivedAt(s, i, j) }

\* The subset law at one visit of the pass: r is the state after the reduction
\* of lines 246-252 and t the state at the end of the visit.  If one sentence
\* is a strict subset of the other, the larger becomes the derived sentence,
\* the smaller stays, and what the derived sentence determines is marked at
\* the end of the visit.
SubsetLawAt(s, i, j, r, t) ==
    LET s1 == s.knowledge[i]
        s2 == s.knowledge[j]
    IN  /\ StrictSubset(s1.cells, s2.cells) =>
              /\ r.knowledge[j] = Derived(s1, s2)
              /\ r.knowledge[i] = s1
        /\ StrictSubset(s2.cells, s1.cells) =>
              /\ r.knowledge[i] = Derived(s2, s1)
              /\ r.knowledge[j] = s2
        /\ DueMinesAt(s, i, j) \subseteq t.mines
        /\ DueSafesAt(s, i, j) \subseteq t.safes

C4_A == Sentence({<<0, 0>>, <<0, 1>>}, 1)
C4_B == Sentence({<<0, 0>>, <<0, 1>>, <<0, 2>>}, 1)

\* The knowledge base holds the sentences A and B of the example as the
\* pairwise pass starts.
C4_HoldsExample ==
    /\ pc = "pairwise"
    /\ \E i \in DOMAIN knowledge : knowledge[i] = C4_A
    /\ \E j \in DOMAIN knowledge : knowledge[j] = C4_B

\* The subset law at the n-th visit of the pass, which has reached s, and at
\* every later visit; dueMines and dueSafes are what the sentences derived at
\* the earlier visits determine.  final is the AI as the call returns: the
\* state the last visit leaves, in which all that is due must be marked, and
\* (0, 2) must be safe if example holds.
RECURSIVE SubsetLawFrom(_, _, _, _, _, _)
SubsetLawFrom(s, n, dueMines, dueSafes, example, final) ==
    IF n >= NPairs(s)
      THEN /\ dueMines \subseteq final.mines
           /\ dueSafes \subseteq final.safes
           /\ example => <<0, 2>> \in final.safes
           /\ s.moves_made = final.moves_made /\ s.mines = final.mines
           /\ s.safes = final.safes /\ s.knowledge = final.knowledge
      ELSE LET i == PairI(s, n)
               j == PairJ(s, n)
               r == reduce_pair(s, i, j)
               t == apply_pair(r, i, j)
           IN  /\ SubsetLawAt(s, i, j, r, t)
               /\ SubsetLawFrom(t, n + 1, dueMines \cup DueMinesAt(s, i, j),
                                dueSafes \cup DueSafesAt(s, i, j), example, final)

\* C4: in every pairwise pass of add_knowledge the subset law holds at every
\* visit, and what the derived sentences determine is in mines and safes when
\* the call returns; if the knowledge base holds A = ({(0,0),(0,1)}, 1) and
\* B = ({(0,0),(0,1),(0,2)}, 1) as the pass starts, the cell (0,2) is in safes
\* after the pass.
C4_SubsetLaw ==
    [][ pc = "pairwise" =>
            LET returned == [moves_made |-> moves_made', mines |-> mines',
                             safes |-> safes', knowledge |-> knowledge']
            IN  SubsetLawFrom(Self, 0, {}, {}, C4_HoldsExample, returned) ]_vars

C4_Witness == C4_HoldsExample

\* ---- C5
\* C5: on a board without mines the driver (a first add_knowledge on any
\* cell, then add_knowledge on make_safe_move() while it returns a cell)
\* stops, and when it has stopped safes holds every cell of the board and
\* mines is empty.
C5_ZeroMinesSolved ==
    /\ <>(pc = "done")
    /\ [](pc = "done" => safes = AllCells /\ mines = {})

\* The driver has stopped with the whole board marked safe.
C5_Witness == pc = "done" /\ safes = AllCells /\ moves_made = AllCells

\* ---- C6
\* The cells of the grid, [0,3) x [0,3).
InGrid == (0 .. 2) \X (0 .. 2)

\* C6: a call result(board, action) on any grid with action in [0,3) x [0,3):
\* if the cell is not EMPTY the call raises IllegalMoveError, returns nothing
\* and leaves the grid as it was; otherwise it raises nothing, returns the
\* grid that differs from the argument in that cell only, where it holds
\* player(board), and the argument is as it was.
C6_ApplyMove ==
    [][ (pc = "call" /\ lastAction' \in InGrid) =>
            LET i == lastAction'[1]
                j == lastAction'[2]
            IN  IF At(board, i, j) # EMPTY
                  THEN /\ raised' = "IllegalMoveError"
                       /\ newBoard' = None
                       /\ board' = board
                  ELSE /\ raised' = "none"
                       /\ newBoard' = [r \in 1 .. 3 |-> [c \in 1 .. 3 |->
                              IF r = i + 1 /\ c = j + 1 THEN player(board)
                              ELSE board[r][c]]]
                       /\ board' = board ]_vars

\* result() was called on a grid in play with an EMPTY cell of the grid and
\* returned a grid with one EMPTY cell less.
C6_Witness ==
    /\ pc = "called"
    /\ lastAction \in InGrid
    /\ raised = "none"
    /\ iEmptyFields(board) \in 1 .. 8
    /\ iEmptyFields(newBoard) = iEmptyFields(board) - 1
    /\ At(board, lastAction[1], lastAction[2]) = EMPTY
    /\ At(newBoard, lastAction[1], lastAction[2]) = player(board)

\* ---- C7
\* C7: add_knowledge and result reject a cell outside the grid and change no
\* state: no cell outside the board is ever in moves_made or safes, and a
\* result() call with an action outside [0,3) x [0,3) raises, returns no grid
\* and leaves its argument as it was.
C7_RejectsOutOfRange ==
    /\ moves_made \subseteq AllCells
    /\ safes \subseteq AllCells
    /\ (pc = "called" /\ lastAction \notin InGrid) =>
           raised # "none" /\ newBoard = None

\* add_knowledge((-1, -1), 0) returned: the cell is in moves_made and safes,
\* and its in-board neighbour (0, 0) was marked safe.
C7_WitnessAddKnowledge ==
    /\ Returned
    /\ <<-1, -1>> \in moves_made \cap safes
    /\ <<0, 0>> \in safes

\* ---- C8
C8Grid ==
    << <<X, X, EMPTY>>,
       <<O, O, EMPTY>>,
       <<EMPTY, EMPTY, EMPTY>> >>

\* C8 as stated: on the grid [[X,X,_],[O,O,_],[_,_,_]] it is O's turn and
\* minimax returns (1, 2).
C8_BlocksAtOneTwo ==
    board = C8Grid => player(board) = O /\ minimax(board) = <<1, 2>>

\* C8 amended: on the grid [[X,X,_],[O,O,_],[_,_,_]] it is X's turn (two X,
\* two O) and minimax returns (0, 2), the move that completes X's top row.
C8_XWinsAtZeroTwo ==
    board = C8Grid =>
        /\ player(board) = X
        /\ minimax(board) = <<0, 2>>
        /\ winner(result(board, minimax(board)).ret) = X

\* Play from the empty grid has reached the grid of the example.
C8_Witness == pc = "ttt" /\ board = C8Grid

\* ---- C9
\* The game in which the player to move always plays minimax(b), from b until
\* terminal(b) holds: the grid it ends on.
RECURSIVE OptimalPlay(_)
OptimalPlay(b) ==
    IF terminal(b) THEN b ELSE OptimalPlay(result(b, minimax(b)).ret)

CornersAndCentre == {<<0, 0>>, <<0, 2>>, <<2, 0>>, <<2, 2>>, <<1, 1>>}

\* C9: on the empty grid minimax returns a corner or the centre, and the game
\* in which both players always play minimax until terminal holds ends on a
\* terminal grid with utility 0 and winner None.
C9_EmptyGridDraw ==
    board = initial_state =>
        LET first == minimax(board)
            end   == OptimalPlay(result(board, first).ret)
        IN  /\ first \in CornersAndCentre
            /\ terminal(end)
            /\ utility(end) = 0
            /\ winner(end) = None

\* The grid the game of C9 ends on: full, no line.
C9_FinalGrid ==
    << <<X, X, O>>,
       <<O, O, X>>,
       <<X, O, X>> >>

\* Play from the empty grid has reached the grid on which the optimal game
\* ends, which is terminal and a draw.
C9_Witness ==
    /\ pc = "ttt"
    /\ board = C9_FinalGrid
    /\ terminal(board)
    /\ utility(board) = 0

\* ---- C10
\* The values minimax compares on grid b: for each action of actions(b), in
\* order, minValue of its successor when X moves, maxValue when O moves.
SuccessorValues(b) ==
    LET acts == actions(b)
    IN  [k \in DOMAIN acts |->
            IF player(b) = X THEN minValue(result(b, acts[k]).ret)
            ELSE maxValue(result(b, acts[k]).ret)]

\* C10: on every grid reachable from the empty grid by result(), minimax
\* returns None iff the grid is terminal; otherwise it returns an action of
\* actions(board), not the placeholder (), whose successor has the maximum of
\* the minValue of the successors when X moves and the minimum of their
\* maxValue when O moves.
C10_MinimaxOptimal ==
    LET m == minimax(board)
    IN  /\ (m = None) <=> terminal(board)
        /\ ~terminal(board) =>
              LET acts == actions(board)
                  vals == SuccessorValues(board)
              IN  /\ m # <<>>
                  /\ \E k \in DOMAIN acts :
                        /\ acts[k] = m
                        /\ \A n \in DOMAIN acts :
                              IF player(board) = X THEN vals[k] >= vals[n]
                              ELSE vals[k] <= vals[n]

\* A reachable grid on which the actions differ in value and minimax has to
\* choose: O to move, X threatening a line.
C10_Witness ==
    /\ pc = "ttt"
    /\ ~terminal(board)
    /\ player(board) = O
    /\ \E k, n \in DOMAIN actions(board) :
          SuccessorValues(board)[k] # SuccessorValues(board)[n]

\* ---- C11
\* A step of SpecQuery from idle to idle is a make_safe_move or a
\* make_random_move call (add_knowledge leaves idle, its pairwise pass comes
\* back to it).
QueryStep == pc = "idle" /\ pc' = "idle"

Lines ==
    { { <<i, j>> : j \in 0 .. 2 } : i \in 0 .. 2 }
      \cup { { <<i, j>> : i \in 0 .. 2 } : j \in 0 .. 2 }
      \cup { { <<k, k>> : k \in 0 .. 2 }, { <<k, 2 - k>> : k \in 0 .. 2 } }

\* Player p occupies all three cells of at least one line of b.
Occupies(b, p) == \E line \in Lines : \A c \in line : At(b, c[1], c[2]) = p

NoCellEmpty(b) == \A i, j \in 0 .. 2 : At(b, i, j) # EMPTY

CellsOf(b, p) == { c \in (0 .. 2) \X (0 .. 2) : At(b, c[1], c[2]) = p }

Occupied(b) == Cardinality(CellsOf(b, X)) + Cardinality(CellsOf(b, O))

\* C13: player(grid) is X iff the number of occupied cells is even; along any
\* sequence of result() calls from the empty grid each call fills one empty
\* cell with the mover's mark and the mover alternates X, O, X, ...; every
\* grid reached has #X - #O in {0, 1}; and a play is over after at most 9
\* moves: the number of occupied cells grows by one with each move, and the
\* grid with 9 occupied cells is terminal.
C13_Alternation ==
    [][ /\ player(board) = X <=> Occupied(board) % 2 = 0
        /\ player(board') = X <=> Occupied(board') % 2 = 0
        /\ board = initial_state => player(board) = X
        /\ player(board') # player(board)
        /\ \E c \in CellsOf(board, EMPTY) :
              /\ At(board', c[1], c[2]) = player(board)
              /\ \A d \in ((0 .. 2) \X (0 .. 2)) \ {c} :
                    At(board', d[1], d[2]) = At(board, d[1], d[2])
        /\ Cardinality(CellsOf(board', X)) - Cardinality(CellsOf(board', O))
              \in {0, 1}
        /\ Occupied(board') = Occupied(board) + 1
        /\ Occupied(board') <= 9
        /\ Occupied(board') = 9 => terminal(board') ]_vars

\* Nine moves were made and nobody has won.
C13_Witness ==
    /\ pc = "ttt"
    /\ Occupied(board) = 9
    /\ Cardinality(CellsOf(board, X)) = 5
    /\ utility(board) = 0
    /\ terminal(board)


\* ---- C14
\* The 8 neighbours of cell that lie on the board.
Neighbours(cell) ==
    { c \in AllCells :
        /\ c # cell
        /\ c[1] - cell[1] \in {-1, 0, 1}
        /\ c[2] - cell[2] \in {-1, 0, 1} }

\* The step is the first part of add_knowledge(cell, ...): cell joins
\* moves_made.
CallOf(cell) == pc = "idle" /\ pc' = "pairwise" /\ moves_made' = moves_made \cup {cell}

\* C14: in add_knowledge(cell, count) the sentence built has as cells exactly
\* the neighbours of cell on the board that are in neither safes nor mines
\* (safes taken after cell itself was safeCell safe) and as count the passed
\* count minus the number of neighbours on the board that are in mines; it is
\* appended to knowledge iff its cell set is non-empty, and one call appends at
\* most one sentence (the pairwise pass appends none).
C14_NewSentence ==
    [][ /\ \A cell \in AllCells \ moves_made :
              LET safeCell == mark_safe([Self EXCEPT !.moves_made = @ \cup {cell}], cell)
                  free   == Neighbours(cell) \ ((safes \cup {cell}) \cup mines)
              IN  /\ safeCell.safes = safes \cup {cell}
                  /\ \A count \in 0 .. 8 :
                        LET built == new_sentence(safeCell, cell, count)
                        IN  /\ built.cells = free
                            /\ built.count =
                                 count - Cardinality(Neighbours(cell) \cap mines)
                  /\ CallOf(cell) =>
                        /\ Len(knowledge') =
                             Len(knowledge) + (IF free # {} THEN 1 ELSE 0)
                        /\ free # {} =>
                             knowledge'[Len(knowledge')].cells \subseteq free
        /\ pc = "pairwise" => Len(knowledge') = Len(knowledge) ]_vars

\* The second call appended nothing: every neighbour of its cell was already
\* in safes or in mines, and some are in mines.
C14_Witness ==
    /\ pc = "pairwise"
    /\ Cardinality(moves_made) = 2
    /\ Len(knowledge) = 1
    /\ mines # {}


\* ---- C15
\* Sentence s determines its cells by itself: it has cells, and either none of
\* them is a mine or all of them are.
Determined(s) ==
    /\ s.cells # {}
    /\ (s.count = 0 \/ s.count = Cardinality(s.cells))

\* C15: when add_knowledge returns (counts reported by the board, distinct
\* cells that are no mines), no sentence of knowledge is left with a non-empty
\* cell set and count = 0, or with a non-empty cell set and count = |cells|.
C15_NoDeterminedLeft ==
    Returned => \A k \in DOMAIN knowledge : ~Determined(knowledge[k])


\* add_knowledge has returned and left a sentence with cells and count 0 of
\* which a cell is not in safes.
C15_Witness ==
    /\ Returned
    /\ \E k \in DOMAIN knowledge :
          /\ Determined(knowledge[k])
          /\ knowledge[k].count = 0
          /\ ~(knowledge[k].cells \subseteq safes)


\* ---- C16
\* C16: across any sequence of add_knowledge calls the list knowledge is
\* append-only: its length never decreases, the sentences it holds keep their
\* positions, and the cell set of each of them after a step of a call is a
\* subset of its cell set before (sentences only shrink; a sentence that
\* became empty stays in the list).
C16_AppendOnly ==
    [][ /\ Len(knowledge') >= Len(knowledge)
        /\ \A k \in DOMAIN knowledge :
              knowledge'[k].cells \subseteq knowledge[k].cells ]_vars

\* A call has returned with an emptied sentence still in the list, before a
\* sentence that has cells.
C16_Witness ==
    /\ Returned
    /\ \E k \in DOMAIN knowledge : \E l \in DOMAIN knowledge :
          /\ k < l
          /\ knowledge[k].cells = {}
          /\ knowledge[l].cells # {}


\* ---- C17
\* Action a comes before action c in row-major order.
RowMajorBefore(a, c) == a[1] < c[1] \/ (a[1] = c[1] /\ a[2] < c[2])

\* The k-th action of b attains the optimum of the mover: the maximum of the
\* values for X, the minimum for O.
Optimal(b, vals, k) ==
    \A n \in DOMAIN vals :
        IF player(b) = X THEN vals[k] >= vals[n] ELSE vals[k] <= vals[n]

\* C17: minimax breaks ties by first-found: actions(board) lists the empty
\* cells in row-major order (ascending row, then ascending column), and among
\* the actions that attain the optimal value minimax returns the first of that
\* list; what it returns is a function of the grid alone.
C17_FirstFound ==
    ~terminal(board) =>
        LET acts == actions(board)
            vals == SuccessorValues(board)
        IN  /\ \A k, n \in DOMAIN acts : k < n => RowMajorBefore(acts[k], acts[n])
            /\ \E k \in DOMAIN acts :
                  /\ Optimal(board, vals, k)
                  /\ \A n \in 1 .. k - 1 : ~Optimal(board, vals, n)
                  /\ minimax(board) = acts[k]

\* O is to move, several actions attain the optimum, and the first action of
\* the list does not.
C17_Witness ==
    /\ pc = "ttt"
    /\ ~terminal(board)
    /\ player(board) = O
    /\ LET vals == SuccessorValues(board)
       IN  /\ ~Optimal(board, vals, 1)
           /\ \E k, n \in DOMAIN vals :
                 k < n /\ Optimal(board, vals, k) /\ Optimal(board, vals, n)


\* ---- C18
\* C18: Sentence.mark_mine(cell) removes cell and decrements count by exactly
\* 1 when cell is in cells, Sentence.mark_safe(cell) removes cell and leaves
\* count unchanged when cell is in cells, and both change neither cells nor
\* count when cell is absent; so the same call made a second time changes
\* nothing.
C18_Marks ==
    [][ LET cell == marked'.cell
        IN  /\ marked'.op = "mark_mine" =>
                 /\ IF cell \in sentence.cells
                      THEN /\ sentence'.cells = sentence.cells \ {cell}
                           /\ sentence'.count = sentence.count - 1
                      ELSE /\ sentence'.cells = sentence.cells
                           /\ sentence'.count = sentence.count
                 /\ Sentence_mark_mine(sentence', cell) = sentence'
            /\ marked'.op = "mark_safe" =>
                 /\ IF cell \in sentence.cells
                      THEN /\ sentence'.cells = sentence.cells \ {cell}
                           /\ sentence'.count = sentence.count
                      ELSE /\ sentence'.cells = sentence.cells
                           /\ sentence'.count = sentence.count
                 /\ Sentence_mark_safe(sentence', cell) = sentence' ]_vars

\* mark_mine took the last mine of a sentence that keeps cells.
C18_Witness ==
    /\ pc = "sentence"
    /\ marked.op = "mark_mine"
    /\ marked.cell \notin sentence.cells
    /\ sentence.cells # {}
    /\ sentence.count = 0


\* ---- C19
\* The board is as the claim wants it: exactly minesArg mines, all of them
\* cells of the board, and board[i][j] True exactly on them.
BoardAsAsked ==
    /\ Cardinality(gameMines) = minesArg
    /\ gameMines \subseteq AllCells
    /\ \A c \in AllCells : gameBoard[c] <=> c \in gameMines

\* C19: the construction of Minesweeper with 0 <= mines <= height * width
\* ends (the cells being drawn fairly), with a mine set of exactly mines
\* distinct cells of the board and board[i][j] True iff (i, j) is in the mine
\* set; after the construction the mine set never changes.
C19_Construction ==
    /\ <>(pc = "built")
    /\ [](pc = "built" => BoardAsAsked)
    /\ [][pc = "built" => gameMines' = gameMines /\ gameBoard' = gameBoard]_vars

\* A board full of mines was built, and its centre was asked for its
\* neighbours.
C19_Witness ==
    /\ pc = "built"
    /\ minesArg = Height * Width
    /\ ret.op = "nearby_mines"
    /\ ret.count = 8


\* ---- C20
\* C20: whenever add_knowledge has returned, after any sequence of calls,
\* moves_made is a subset of safes, and no sentence of knowledge contains a
\* cell that is in safes or in mines.
C20_OnlyUnknownCells ==
    Returned =>
        /\ moves_made \subseteq safes
        /\ \A k \in DOMAIN knowledge :
              knowledge[k].cells \cap (safes \cup mines) = {}

\* A call has returned, the AI knows a mine and a safe cell it has not
\* played, and a sentence still has cells.
C20_Witness ==
    /\ Returned
    /\ mines # {}
    /\ safes \ moves_made # {}
    /\ \E k \in DOMAIN knowledge : knowledge[k].cells # {}


=============================================================================
